---- MODULE Spec2Model ----
(***************************************************************************)
(* Model of python_scripts/admin_change_color.py: one run of the script,   *)
(* statement by statement.  Python strings are sequences of one-character  *)
(* strings, so that formatting (str, f-strings) and parsing (int) are      *)
(* computed and not assumed.                                               *)
(***************************************************************************)
EXTENDS Integers, Sequences, FiniteSets, TLC

VARIABLES
    argv,       \* the command line: [color, url], each a string or NoneVal
    secrets,    \* the file secrets.json in the working directory
    pc,         \* the statement the script is about to execute
    args,       \* the namespace returned by parser.parse_args()
    color,      \* the script's variable color
    url,        \* the script's variable url
    rng,        \* the script's variable rng
    url_query,  \* the script's variable url_query
    req,        \* the script's variable req (the response's status code)
    opened,     \* how many times secrets.json has been opened
    gets,       \* the targets of the calls to requests.get, in order
    stdout,     \* the lines printed, in order
    exitCode    \* the process's exit status, Running until it exits

vars == <<argv, secrets, pc, args, color, url, rng, url_query, req, opened,
          gets, stdout, exitCode>>

----------------------------------------------------------------------------
(* Values *)

\* Python's None where a string may stand: no string has a two-letter character.
NoneVal == <<"None">>

\* A name that is not bound yet (an integer variable before its assignment).
Unbound == -1

\* The exit status of a process that has not exited.
Running == -1

N_COLOR == 10

MAC == <<"0","2",":","0","1",":","2","0",":","2","2",":","A","D","M","I","N">>

\* The bounds of random.randint(1000, 9999).
NonceLo == 1000
NonceHi == 9999

ExitOk == 0
ExitException == 1
ExitUsage == 2

----------------------------------------------------------------------------
(* Python built-ins the script uses *)

Digits == <<"0","1","2","3","4","5","6","7","8","9">>

DigitVal(ch) == (CHOOSE i \in 1..10 : Digits[i] = ch) - 1

\* str(n) for a natural number: decimal, no leading zeros.
RECURSIVE NatToStr(_)
NatToStr(n) ==
    IF n < 10 THEN <<Digits[n + 1]>>
    ELSE NatToStr(n \div 10) \o <<Digits[(n % 10) + 1]>>

\* str(n) and the {n} of an f-string, for an int.
IntToStr(n) == IF n < 0 THEN <<"-">> \o NatToStr(0 - n) ELSE NatToStr(n)

\* The value of a string of decimal digits.
RECURSIVE DigitsToNat(_)
DigitsToNat(s) ==
    IF Len(s) = 0 THEN 0
    ELSE 10 * DigitsToNat(SubSeq(s, 1, Len(s) - 1)) + DigitVal(s[Len(s)])

\* int(s) for a string: an optional sign, then decimal digits.
StrToInt(s) ==
    IF Len(s) > 0 /\ s[1] = "-" THEN 0 - DigitsToNat(Tail(s))
    ELSE IF Len(s) > 0 /\ s[1] = "+" THEN DigitsToNat(Tail(s))
    ELSE DigitsToNat(s)

\* random.randint(a, b): the values a call may return.
randint(a, b) == a..b

----------------------------------------------------------------------------
(* The argument parser, lines 10-14 *)

\* choices=[str(num) for num in range(N_COLOR)]
ColorChoices == { IntToStr(num) : num \in 0..(N_COLOR - 1) }

\* A parser that takes the two options together or not at all.
ParserAcceptsBothOrNone(av) ==
    /\ (av.color = NoneVal) <=> (av.url = NoneVal)
    /\ av.color = NoneVal \/ av.color \in ColorChoices

\* A parser whose --color has no choices.
ParserAcceptsAnyColor(av) == TRUE

\* Whether parse_args accepts the command line: both options are
\* required=False, and --color is checked against its choices.
ParserAccepts(av) == av.color = NoneVal \/ av.color \in ColorChoices

----------------------------------------------------------------------------
(* Inputs *)

\* --color values tried: the decimal strings of -MaxOut .. N_COLOR-1+MaxOut.
MaxOut == 1

ExampleUrl == <<"h","t","t","p","s",":","/","/","e","x","a","m","p","l","e",
                ".","c","o","m","/","x">>

FooUrl == <<"h","t","t","p","s",":","/","/","f","o","o">>

ColorArgs ==
    {NoneVal} \cup { IntToStr(n) : n \in (0 - MaxOut)..(N_COLOR - 1 + MaxOut) }

\* --url values tried: absent, a URL, and the empty string.
UrlArgs == {NoneVal, ExampleUrl, <<>>}

\* secrets.json: absent, not JSON, a JSON object without the key, or with it.
SecretsFiles ==
    { [kind |-> "missing",   obj |-> <<>>],
      [kind |-> "malformed", obj |-> <<>>],
      [kind |-> "object",    obj |-> [other |-> FooUrl]],
      [kind |-> "object",    obj |-> [webapp_url |-> FooUrl]] }

\* The runs explored: every --color with no --url and with the example URL,
\* and every secrets.json; where --url is given and the color is accepted,
\* every secrets.json and the empty URL are tried with --color 3 only, and
\* a missing secrets.json with the other colors.
Inputs ==
    { in \in [color : ColorArgs, url : UrlArgs, secrets : SecretsFiles] :
        \/ in.url = NoneVal
        \/ in.color # NoneVal /\ in.color \notin ColorChoices
        \/ in.color = <<"3">>
        \/ in.url = ExampleUrl /\ in.secrets.kind = "missing" }

\* What requests.get may do: return a response with a status, or raise.
StatusCodes == {200, 500}

----------------------------------------------------------------------------
(* The script *)

Init ==
    /\ \E in \in Inputs :
         /\ argv = [color |-> in.color, url |-> in.url]
         /\ secrets = in.secrets
    /\ pc = "parse_args"
    /\ args = [color |-> NoneVal, url |-> NoneVal]
    /\ color = Unbound
    /\ url = NoneVal
    /\ rng = Unbound
    /\ url_query = NoneVal
    /\ req = Unbound
    /\ opened = 0
    /\ gets = <<>>
    /\ stdout = <<>>
    /\ exitCode = Running

\* The process ends with the given status; nothing else changes.
Exit(status) ==
    /\ pc' = "exit"
    /\ exitCode' = status

\* Line 14: args = parser.parse_args().  A rejected command line prints the
\* usage to stderr and exits with status 2.
ParseArgs ==
    /\ pc = "parse_args"
    /\ IF ParserAccepts(argv)
         THEN /\ args' = argv
              /\ pc' = "parse_color"
              /\ UNCHANGED exitCode
         ELSE /\ Exit(ExitUsage)
              /\ UNCHANGED args
    /\ UNCHANGED <<argv, secrets, color, url, rng, url_query, req, opened,
                   gets, stdout>>

\* A script that draws the color even when --color is given.
ResolveColorAlwaysRandom(a) == randint(0, N_COLOR - 1)

\* A script that draws the color from 0..N_COLOR.
ResolveColorOffByOne(a) ==
    IF a.color = NoneVal
      THEN randint(0, N_COLOR)
      ELSE { StrToInt(a.color) }

\* Lines 17-20: the values color may get.
ResolveColor(a) ==
    IF a.color = NoneVal
      THEN randint(0, N_COLOR - 1)
      ELSE { StrToInt(a.color) }

\* Lines 16-20: # Parse color
ParseColor ==
    /\ pc = "parse_color"
    /\ color' \in ResolveColor(args)
    /\ pc' = "parse_url"
    /\ UNCHANGED <<argv, secrets, args, url, rng, url_query, req, opened,
                   gets, stdout, exitCode>>

\* Lines 24-27: open, json.load and the subscript succeed.
SecretsLoads(f) == f.kind = "object" /\ "webapp_url" \in DOMAIN f.obj

\* A script that reads secrets.json whether or not --url is given.
NeedsSecretsAlways(a) == TRUE

\* Whether line 23 takes the branch that reads secrets.json.
NeedsSecrets(a) == a.url = NoneVal

\* Lines 28-29: url = str(args.url)
UrlFromArgs(a) == a.url

\* A script that swallows the loader's exception and goes on.
OnLoadErrorContinue ==
    /\ pc' = "draw_nonce"
    /\ UNCHANGED exitCode

\* Lines 24-27: where the script goes when the loader raises.
OnLoadError == Exit(ExitException)

\* Lines 22-29: # Parse webapp URL.  open() raises on a missing file,
\* json.load on a malformed one, the subscript on a missing key; nothing
\* catches them.
ParseUrl ==
    /\ pc = "parse_url"
    /\ IF NeedsSecrets(args)
         THEN /\ opened' = opened + 1
              /\ IF SecretsLoads(secrets)
                   THEN /\ url' = secrets.obj.webapp_url
                        /\ pc' = "draw_nonce"
                        /\ UNCHANGED exitCode
                   ELSE /\ OnLoadError
                        /\ UNCHANGED url
         ELSE /\ url' = UrlFromArgs(args)
              /\ pc' = "draw_nonce"
              /\ UNCHANGED <<opened, exitCode>>
    /\ UNCHANGED <<argv, secrets, args, color, rng, url_query, req, gets,
                   stdout>>

\* A script that draws the nonce from 1000..10000.
DrawRngOffByOne == randint(NonceLo, NonceHi + 1)

\* Line 32: the values rng may get.
DrawRng == randint(NonceLo, NonceHi)

\* Line 32: rng = random.randint(1000, 9999)
DrawNonce ==
    /\ pc = "draw_nonce"
    /\ rng' \in DrawRng
    /\ pc' = "build_query"
    /\ UNCHANGED <<argv, secrets, args, color, url, url_query, req, opened,
                   gets, stdout, exitCode>>

\* A query with the nonce and the color in each other's place.
FormatQuerySwapped(u, c, r) ==
    u \o <<"?","f","c","=">> \o IntToStr(r) \o <<".">> \o IntToStr(c)
      \o <<".">> \o MAC

\* Line 33: f"{url}?fc={color}.{rng}.{MAC}"
FormatQuery(u, c, r) ==
    u \o <<"?","f","c","=">> \o IntToStr(c) \o <<".">> \o IntToStr(r)
      \o <<".">> \o MAC

\* Line 33: url_query = ...
BuildQuery ==
    /\ pc = "build_query"
    /\ url_query' = FormatQuery(url, color, rng)
    /\ pc' = "get"
    /\ UNCHANGED <<argv, secrets, args, color, url, rng, req, opened, gets,
                   stdout, exitCode>>

\* Line 34: the target handed to requests.get.
GetTarget == url_query

\* A script that calls requests.get again when it raises.
OnGetErrorRetry ==
    /\ pc' = "get"
    /\ UNCHANGED exitCode

\* Line 34: where the script goes when requests.get raises.
OnGetError == Exit(ExitException)

\* Line 34: req = requests.get(url_query).  The call returns a response of
\* any status, or raises (no connection, bad URL, ...); nothing catches it.
Get ==
    /\ pc = "get"
    /\ gets' = Append(gets, GetTarget)
    /\ \E outcome \in StatusCodes \cup {Unbound} :
         IF outcome # Unbound
           THEN /\ req' = outcome
                /\ pc' = "print"
                /\ UNCHANGED exitCode
           ELSE /\ OnGetError
                /\ UNCHANGED req
    /\ UNCHANGED <<argv, secrets, args, color, url, rng, url_query, opened,
                   stdout>>

\* Line 37: f"Admin changed color to {color} using request {url_query}"
FormatReport(c, q) ==
    <<"A","d","m","i","n"," ","c","h","a","n","g","e","d"," ","c","o","l","o",
      "r"," ","t","o"," ">> \o IntToStr(c)
      \o <<" ","u","s","i","n","g"," ","r","e","q","u","e","s","t"," ">> \o q

\* A script that checks the response's status before it reports.
ReportIfOk ==
    /\ pc = "print"
    /\ IF req < 400
         THEN /\ stdout' = Append(stdout, FormatReport(color, url_query))
              /\ Exit(ExitOk)
         ELSE /\ Exit(ExitException)
              /\ UNCHANGED stdout
    /\ UNCHANGED <<argv, secrets, args, color, url, rng, url_query, req,
                   opened, gets>>

\* Line 37: print(...), then the script ends and the process exits with 0.
Report ==
    /\ pc = "print"
    /\ stdout' = Append(stdout, FormatReport(color, url_query))
    /\ Exit(ExitOk)
    /\ UNCHANGED <<argv, secrets, args, color, url, rng, url_query, req,
                   opened, gets>>

Next ==
    \/ ParseArgs
    \/ ParseColor
    \/ ParseUrl
    \/ DrawNonce
    \/ BuildQuery
    \/ Get
    \/ Report

Spec == Init /\ [][Next]_vars

----------------------------------------------------------------------------
(* Vocabulary of the properties *)

\* The strings "0" .. "9", written out.
ColorStrings ==
    { <<"0">>, <<"1">>, <<"2">>, <<"3">>, <<"4">>, <<"5">>, <<"6">>, <<"7">>,
      <<"8">>, <<"9">> }

\* The device identifier, written out.
DeviceId ==
    <<"0","2",":","0","1",":","2","0",":","2","2",":","A","D","M","I","N">>

\* ch is a decimal digit; s is a non-empty string of them.
IsDigit(ch) == \E i \in 1..10 : Digits[i] = ch

IsDigitStr(s) == Len(s) > 0 /\ \A i \in 1..Len(s) : IsDigit(s[i])

\* The command line carries --color / --url.
HasColor == argv.color # NoneVal
HasUrl == argv.url # NoneVal

\* parse_args has returned or exited.
Parsed == pc # "parse_args"

\* The process ended with the parser's usage error.
Rejected == pc = "exit" /\ exitCode = 2

\* secrets.json cannot give a URL: missing, malformed or without the key.
SecretsBroken ==
    \/ secrets.kind = "missing"
    \/ secrets.kind = "malformed"
    \/ secrets.kind = "object" /\ "webapp_url" \notin DOMAIN secrets.obj

\* t is base?fc=<c>.<n>.<device id> with c one digit and n four digits.
IsTarget(t, base, c, n) ==
    LET b == Len(base) IN
    /\ Len(t) = b + 28
    /\ SubSeq(t, 1, b) = base
    /\ SubSeq(t, b + 1, b + 4) = <<"?","f","c","=">>
    /\ IsDigit(t[b + 5]) /\ DigitVal(t[b + 5]) = c
    /\ t[b + 6] = "."
    /\ IsDigitStr(SubSeq(t, b + 7, b + 10))
    /\ t[b + 7] # "0"
    /\ DigitsToNat(SubSeq(t, b + 7, b + 10)) = n
    /\ t[b + 11] = "."
    /\ SubSeq(t, b + 12, b + 28) = DeviceId

\* l is the summary line for color digit d and target t.
IsSummary(l, d, t) ==
    /\ Len(l) = 39 + Len(t)
    /\ SubSeq(l, 1, 23) =
         <<"A","d","m","i","n"," ","c","h","a","n","g","e","d"," ","c","o",
           "l","o","r"," ","t","o"," ">>
    /\ l[24] = d
    /\ SubSeq(l, 25, 39) =
         <<" ","u","s","i","n","g"," ","r","e","q","u","e","s","t"," ">>
    /\ SubSeq(l, 40, Len(l)) = t

----------------------------------------------------------------------------
(* Properties *)

\* C1: the target of every GET request is <url>?fc=<color>.<nonce>.<device id>
\* for the resolved url, the resolved color, the nonce drawn and the device id
\* 02:01:20:22:ADMIN; with --url https://example.com/x --color 3 it is
\* https://example.com/x?fc=3.<nonce>.02:01:20:22:ADMIN, nonce in 1000..9999.
C1_RequestTarget ==
    \A i \in 1..Len(gets) :
        /\ IsTarget(gets[i], url, color, rng)
        /\ (argv.url = ExampleUrl /\ argv.color = <<"3">>) =>
              /\ SubSeq(gets[i], 1, 27) =
                   <<"h","t","t","p","s",":","/","/","e","x","a","m","p","l",
                     "e",".","c","o","m","/","x","?","f","c","=","3",".">>
              /\ DigitsToNat(SubSeq(gets[i], 28, 31)) \in 1000..9999
              /\ SubSeq(gets[i], 32, Len(gets[i])) = <<".">> \o DeviceId

C1_Witness ==
    /\ Len(gets) = 1
    /\ argv.url = ExampleUrl
    /\ argv.color = <<"3">>

\* C2: with --color c, c in "0".."9", the resolved color is the integer c, and
\* c is the color in the request's query and in the printed summary line.
C2_ExplicitColor ==
    \A c \in 0..9 :
        argv.color = <<Digits[c + 1]>> =>
            /\ color \in {Unbound, c}
            /\ Parsed /\ ~Rejected /\ pc # "parse_color" => color = c
            /\ \A i \in 1..Len(gets) : gets[i][Len(url) + 5] = Digits[c + 1]
            /\ \A i \in 1..Len(stdout) : stdout[i][24] = Digits[c + 1]

C2_Witness ==
    /\ argv.color = <<"7">>
    /\ color = 7
    /\ Len(gets) = 1
    /\ Len(stdout) = 1

\* C3: a --color value outside "0".."9" ends the process in the parser with
\* a non-zero status; no request is made, secrets.json is not opened and
\* nothing is printed, whatever --url and secrets.json are.
C3_InvalidColorRejected ==
    (HasColor /\ argv.color \notin ColorStrings) =>
        /\ pc \in {"parse_args", "exit"}
        /\ pc = "exit" => exitCode = 2
        /\ gets = <<>>
        /\ opened = 0
        /\ stdout = <<>>

C3_Witness ==
    /\ argv.color = <<"1","0">>
    /\ HasUrl
    /\ ~SecretsBroken
    /\ Rejected

\* C4: without --url and with secrets.json missing, malformed or without the
\* webapp_url key, the process ends with a non-zero status; no url is
\* resolved, no request is made and nothing is printed.
C4_BrokenSecretsFails ==
    (~HasUrl /\ SecretsBroken) =>
        /\ pc = "exit" => exitCode \notin {Running, 0}
        /\ pc \in {"parse_args", "parse_color", "parse_url", "exit"}
        /\ url = NoneVal
        /\ gets = <<>>
        /\ stdout = <<>>

C4_Witness ==
    /\ ~HasUrl
    /\ secrets.kind = "object"
    /\ SecretsBroken
    /\ opened = 1
    /\ pc = "exit"
    /\ exitCode = 1

\* C5: without --url the resolved url is the webapp_url of secrets.json
\* (https://foo here); with --url it is the given string, secrets.json is
\* never opened, and the run goes on whatever secrets.json is.
C5_UrlResolution ==
    /\ (~HasUrl /\ url # NoneVal) =>
          /\ url = secrets.obj.webapp_url
          /\ url = <<"h","t","t","p","s",":","/","/","f","o","o">>
          /\ opened = 1
    /\ HasUrl =>
          /\ opened = 0
          /\ url \in {NoneVal, argv.url}
          /\ pc \notin {"parse_args", "parse_color", "parse_url"} /\ ~Rejected
                => url = argv.url
          /\ pc = "exit" /\ ~Rejected => Len(gets) = 1

C5_Witness ==
    /\ HasUrl
    /\ secrets.kind = "missing"
    /\ url = argv.url
    /\ Len(stdout) = 1

\* C6: the nonce is in 1000..9999; it is drawn in every run that gets as far
\* as building the query, with or without --color and --url, and every
\* value of the range can be drawn there.
C6_NonceRange ==
    /\ rng = Unbound \/ rng \in 1000..9999
    /\ pc \in {"build_query", "get", "print"} \/ gets # <<>> => rng # Unbound
    /\ pc = "draw_nonce" =>
          /\ DrawRng = 1000..9999
          /\ \A n \in {1000, 9999} : ENABLED (DrawNonce /\ rng' = n)

C6_Witness ==
    /\ rng = 9999
    /\ HasColor
    /\ HasUrl
    /\ Len(gets) = 1

\* C7: without --color the resolved color is an integer in 0..9, and each of
\* the ten values can be drawn.
C7_RandomColor ==
    ~HasColor =>
        /\ color = Unbound \/ color \in 0..9
        /\ Parsed /\ pc # "parse_color" => color # Unbound
        /\ pc = "parse_color" =>
              \A c \in 0..9 : ENABLED (ParseColor /\ color' = c)

C7_Witness ==
    /\ ~HasColor
    /\ color = 9
    /\ Len(stdout) = 1

\* C8: at most one GET request is made, exactly one by the end when the
\* parser accepts and the url resolves; it is made after color, url and
\* nonce are resolved; when it raises it is not made again and the process
\* ends with a non-zero status.
C8_SingleRequest ==
    /\ Len(gets) <= 1
    /\ (/\ pc = "exit"
        /\ ~HasColor \/ argv.color \in ColorStrings
        /\ HasUrl \/ ~SecretsBroken) => Len(gets) = 1
    /\ gets # <<>> =>
          /\ color \in 0..9
          /\ url # NoneVal
          /\ rng \in 1000..9999
          /\ pc \in {"print", "exit"}
    /\ (pc = "exit" /\ gets # <<>> /\ req = Unbound) =>
          /\ exitCode \notin {Running, 0}
          /\ stdout = <<>>

C8_Witness ==
    /\ pc = "exit"
    /\ Len(gets) = 1
    /\ req = Unbound
    /\ exitCode = 1

\* C9: once requests.get has returned a response, of whatever status, the
\* script prints one line holding the color and the target that was
\* requested and exits with 0; nothing is printed before the request or
\* without a response.
C9_Summary ==
    /\ Len(stdout) <= 1
    /\ stdout # <<>> =>
          /\ Len(gets) = 1
          /\ req # Unbound
          /\ color \in 0..9
          /\ IsSummary(stdout[1], Digits[color + 1], gets[1])
          /\ pc = "exit" /\ exitCode = 0
    /\ (pc = "exit" /\ req # Unbound) =>
          /\ Len(stdout) = 1
          /\ exitCode = 0
    /\ pc = "exit" /\ exitCode = 0 => req # Unbound

C9_Witness ==
    /\ pc = "exit"
    /\ req = 500
    /\ Len(stdout) = 1
    /\ exitCode = 0

\* C10 as stated: the parser accepts a command line with none or both of
\* --color and --url, and not one with exactly one of them.
C10_ZeroOrTwoFlags ==
    (Parsed /\ (HasColor <=> ~HasUrl)) => Rejected

\* C10 as amended: the parser accepts every combination of the two options,
\* none, --color alone, --url alone or both; it rejects exactly the command
\* lines whose --color value is not one of "0".."9".
C10_ZeroToTwoFlags ==
    Parsed => (Rejected <=> (HasColor /\ argv.color \notin ColorStrings))

C10_Witness ==
    /\ HasColor
    /\ ~HasUrl
    /\ pc = "exit"
    /\ exitCode = 0

====
